---------------------------- MODULE Spec2Model ----------------------------
(***************************************************************************)
(* The Authorization-Code-Flow demo servers of identity-browser-tests.     *)
(*                                                                         *)
(* The state is the process-wide `database` (username -> UserState), the   *)
(* per-browser express-session objects, the handler invocations that are   *)
(* suspended at an `await` (credential.getToken, client.sendRequest), the  *)
(* wall clock, and `last`, the most recent handler step with its outcome.  *)
(* `url` follows one browser through the redirect chain of /azureLogin,    *)
(* with the URLs and query strings written out character by character.     *)
(* `wrapper` is the last call of a test wrapper of new/test/wrappers.ts.     *)
(*                                                                         *)
(* `sample` is the server that is running; Spec runs the first three,      *)
(* HarnessSpec the fourth and IdealSpec the fifth:                         *)
(*   "current"  AuthorizationCodeCredential/test.ts                        *)
(*   "draft"    the first draft of the same server (unnamed/part_000)      *)
(*   "obo"      the On-Behalf-Of test (unnamed/part_003) on the            *)
(*              parametrizable server of current/test/server.ts            *)
(*   "harness"  the test of current/test/test.spec.ts on the same server   *)
(*   "ideal"    AuthorizationCodeCredential/ideal.ts, the same server      *)
(*              written against the proposed WebRedirectCredential         *)
(* and "new" is a test of new/test, of which WrapperSpec runs the wrappers. *)
(***************************************************************************)
EXTENDS Integers, Sequences, FiniteSets, TLC

\* ------------------------------------------------------------------ bounds
MaxTokens == 2
MaxTime == 1
MaxLen == 3
MaxCredentials == 2

\* ------------------------------------------------------- program constants
StatusOk == 200
StatusFound == 302
StatusUnauthorized == 401
\* the argument of res.sendStatus in the already-authenticated branch
StatusServerError == 500
\* no status line was produced: the handler threw, or is still suspended
NoStatus == 0

\* ---------------------------------------------------------- JS value model
\* `undefined` where a string is expected (session.username, a query parameter)
Undefined == "<undefined>"
\* `undefined` where an object is expected; Some(v) is a defined object
None == << >>
Some(v) == << v >>
Has(opt) == opt # None
Get(opt) == opt[1]

\* JavaScript truthiness of a string-or-undefined value
Truthy(v) == v # Undefined /\ v # ""

\* database[v]: a property key is the string conversion of the value
ToPropertyKey(v) == IF v = Undefined THEN "undefined" ELSE v

\* the servers that Spec runs
Samples == {"current", "draft", "obo"}
\* test.ts and ideal.ts, whose /login, /logout and /me are the same code
ExpressSamples == {"current", "ideal"}
\* the samples built on prepareServer of current/test/server.ts
ServerSamples == {"obo", "harness"}
\* the browser sessions (express-session cookies)
Sessions == {1, 2}
Usernames == {"alice", "bob"}
\* ?state= of the callback: a username, or the parameter left out
StateParams == Usernames \cup {Undefined}
FakeCode == "XXXXXXXXX"
\* "The redirect will either contain a code or an error"
CallbackQueries == {[code |-> FakeCode, error |-> Undefined],
                    [code |-> Undefined, error |-> "access_denied"]}
\* what the resource API may answer: OK, or Forbidden
UpstreamStatuses == {StatusOk, 403}

\* azure: {} of a fresh UserState
EmptyAzure == [credential |-> None, accessToken |-> None, error |-> None]

NewUserState == [loggedIn |-> TRUE, azure |-> EmptyAzure]

Idle == [kind |-> "idle", username |-> Undefined, credential |-> None,
         bearer |-> None, attempts |-> 0]

VARIABLES sample, database, session, pending, now, nextToken, last, url,
          nextCredential, wrapper

vars == << sample, database, session, pending, now, nextToken, last, url,
          nextCredential, wrapper >>

\* database[username] is defined
HasEntry(username) == ToPropertyKey(username) \in DOMAIN database
Entry(username) == database[ToPropertyKey(username)]

\* database[key] = value, creating the property when it is missing
Put(db, key, value) ==
    [k \in DOMAIN db \cup {key} |-> IF k = key THEN value ELSE db[k]]

\* One handler step: the request (op, issuing session, username or state
\* parameter, code and error parameters), whether the step resumed a suspended
\* invocation, its outcome, and what it used.
\* outcome: "response" (a response was sent and ended), "threw" (the async
\* handler rejected: the response is never ended), "await" (suspended at an
\* await). status: the status line that went out, NoStatus when none did.
\* bearer: the access token sent upstream or obtained; attempts: the getToken
\* calls the invocation has made so far.
Record(op, s, username, code, error, resumed, outcome, status, bearer, attempts) ==
    [op |-> op, session |-> s, username |-> username, code |-> code,
     error |-> error, resumed |-> resumed, outcome |-> outcome,
     status |-> status, bearer |-> bearer, attempts |-> attempts]

\* a step of a handler that takes no code and touches no token
Step(op, s, username, outcome, status) ==
    Record(op, s, username, Undefined, Undefined, FALSE, outcome, status,
           None, 0)

\* the already-authenticated branch of /login:
\*     res.write("User is already authenticated"); res.sendStatus(500);
\* res.write sends the header, with the default status 200, and the first body
\* chunk; sendStatus then sets Content-Type on a response whose header is out,
\* which throws ERR_HTTP_HEADERS_SENT, so the response is never ended.
AlreadyAuthenticatedStep(s, username) ==
    Step("login", s, username, "threw", StatusOk)

\* the test wrappers under process.env.TEST_MODE = testMode, before any call.
\* After a call: which wrapper ran and when, how many calls it made on the
\* wrapped credential or HTTP client, what that call produced (None when there
\* was none) and what the wrapper produced.
NotCalled(testMode) ==
    [testMode |-> testMode, call |-> "none", at |-> 0, delegated |-> 0,
     wrapped |-> None, returned |-> None]

\* no redirect chain is being followed
UrlIdle == [stage |-> "idle", tenantId |-> << >>, clientId |-> << >>,
            scopes |-> << >>, redirectUri |-> << >>, state |-> << >>,
            authorizeUrl |-> << >>, location |-> << >>, query |-> << >>,
            got |-> << >>]

\* the state of a server that has just been started
Constructed ==
    /\ url = UrlIdle
    /\ wrapper = NotCalled(Undefined)
    /\ nextCredential = 1
    /\ database = [k \in {} |-> NewUserState]
    /\ session = [s \in Sessions |-> Undefined]
    /\ pending = [s \in Sessions |-> Idle]
    /\ now = 0
    /\ nextToken = 1
    /\ last = Step("start", 1, Undefined, "none", NoStatus)

Init == sample \in Samples /\ Constructed

\* ------------------------------------------------- test.ts: the handlers

\* faulty variant: the check forgets the loggedIn flag
LoggedInIgnoresFlag(username) == Truthy(username)

\* username && database[username].loggedIn, for a username whose entry exists
LoggedIn(username) == Truthy(username) /\ Entry(username).loggedIn

\* the same condition throws a TypeError when it reads .loggedIn of undefined
CheckThrows(username) == Truthy(username) /\ ~HasEntry(username)

\* faulty variant: /login never looks at the session
AlreadyAuthenticatedNever(s) == FALSE

\* if (session.username): the browser session already carries a username
AlreadyAuthenticated(s) == Truthy(session[s])

\* faulty variant: the callback never looks for the code
CodeMissingNever(code) == FALSE

\* if (!authorizationCode)
CodeMissing(code) == ~Truthy(code)

\* GET /logout
Logout(s) ==
    LET username == session[s] IN
    /\ sample \in ExpressSamples
    /\ IF HasEntry(username)
       THEN /\ database' = [database EXCEPT
                             ![ToPropertyKey(username)].loggedIn = FALSE]
            /\ session' = [session EXCEPT ![s] = Undefined]
            /\ last' = Step("logout", s, username, "response", StatusOk)
       ELSE \* database[username] is undefined: TypeError at the assignment
            /\ last' = Step("logout", s, username, "threw", NoStatus)
            /\ UNCHANGED << database, session >>
    /\ UNCHANGED << wrapper, url, nextCredential, sample, pending, now, nextToken >>

\* faulty variant: every login stores a new UserState
LoginResetsAzure(s, username) ==
    /\ sample \in ExpressSamples
    /\ IF AlreadyAuthenticated(s)
       THEN /\ last' = AlreadyAuthenticatedStep(s, username)
            /\ UNCHANGED << database, session >>
       ELSE /\ session' = [session EXCEPT ![s] = username]
            /\ database' =
                 Put(database, ToPropertyKey(username), NewUserState)
            /\ last' = Step("login", s, username, "response", StatusOk)
    /\ UNCHANGED << wrapper, url, nextCredential, sample, pending, now, nextToken >>

\* GET /login?username=
Login(s, username) ==
    /\ sample \in ExpressSamples
    /\ IF AlreadyAuthenticated(s)
       THEN /\ last' = AlreadyAuthenticatedStep(s, username)
            /\ UNCHANGED << database, session >>
       ELSE /\ session' = [session EXCEPT ![s] = username]
            /\ database' =
                 LET key == ToPropertyKey(username)
                     created == IF HasEntry(username) THEN database
                                ELSE Put(database, key, NewUserState)
                 IN [created EXCEPT ![key].loggedIn = TRUE]
            /\ last' = Step("login", s, username, "response", StatusOk)
    /\ UNCHANGED << wrapper, url, nextCredential, sample, pending, now, nextToken >>

\* faulty variant: /azureLogin stores a credential for the user it redirects
AzureLoginStoresCredential(s) ==
    LET username == session[s] IN
    /\ sample = "current"
    /\ IF CheckThrows(username)
       THEN /\ last' = Step("azureLogin", s, username, "threw", NoStatus)
            /\ UNCHANGED database
       ELSE IF ~LoggedIn(username)
       THEN /\ last' = Step("azureLogin", s, username, "response",
                            StatusUnauthorized)
            /\ UNCHANGED database
       ELSE /\ last' = Step("azureLogin", s, username, "response", StatusFound)
            /\ database' = [database EXCEPT ![ToPropertyKey(username)].azure =
                 [credential |-> Some([code |-> FakeCode]),
                  accessToken |-> None, error |-> None]]
    /\ UNCHANGED << wrapper, url, nextCredential, sample, session, pending, now, nextToken >>

\* GET /azureLogin: redirects to the authorize URL with state = session.username
AzureLogin(s) ==
    LET username == session[s] IN
    /\ sample = "current"
    /\ last' = IF CheckThrows(username)
               THEN Step("azureLogin", s, username, "threw", NoStatus)
               ELSE IF ~LoggedIn(username)
               THEN Step("azureLogin", s, username, "response",
                         StatusUnauthorized)
               ELSE Step("azureLogin", s, username, "response", StatusFound)
    /\ UNCHANGED << wrapper, url, nextCredential, sample, database, session, pending, now, nextToken >>

\* GET /azureFakeRedirect?state=: stands in for the identity provider. The
\* browser comes here by following the redirect of /azureLogin, whose query
\* carries state = session.username.
AzureFakeRedirect(s, state) ==
    /\ sample = "current"
    /\ last.op = "azureLogin" /\ last.status = StatusFound
    /\ s = last.session /\ state = last.username
    /\ last' = Record("azureFakeRedirect", s, state, FakeCode, Undefined,
                      FALSE, "response", StatusFound, None, 0)
    /\ UNCHANGED << wrapper, url, nextCredential, sample, database, session, pending, now, nextToken >>

\* faulty variant: the callback checks the session before it looks for the code
AzureResponseSessionFirst(s, code, state, error) ==
    /\ sample = "current"
    /\ pending[s] = Idle
    /\ IF CheckThrows(state)
       THEN /\ last' = Record("azureResponse", s, state, code, error, FALSE,
                              "threw", NoStatus, None, 0)
            /\ UNCHANGED pending
       ELSE IF ~LoggedIn(state)
       THEN /\ last' = Record("azureResponse", s, state, code, error, FALSE,
                              "response", StatusUnauthorized, None, 0)
            /\ UNCHANGED pending
       ELSE IF CodeMissing(code)
       THEN /\ last' = Record("azureResponse", s, state, code, error, FALSE,
                              "threw", NoStatus, None, 0)
            /\ UNCHANGED pending
       ELSE /\ pending' = [pending EXCEPT ![s] =
                 [kind |-> "getToken", username |-> state,
                  credential |-> Some([code |-> code]),
                  bearer |-> None, attempts |-> 1]]
            /\ last' = Record("azureResponse", s, state, code, error, FALSE,
                              "await", NoStatus, None, 1)
    /\ UNCHANGED << wrapper, url, nextCredential, sample, database, session, now, nextToken >>

\* GET /azureResponse?code=&state=&error= up to `await credential.getToken`
AzureResponse(s, code, state, error) ==
    /\ sample = "current"
    /\ pending[s] = Idle
    /\ IF CodeMissing(code)
       THEN \* throw new Error(`Authentication Error ...`)
            /\ last' = Record("azureResponse", s, state, code, error, FALSE,
                              "threw", NoStatus, None, 0)
            /\ UNCHANGED pending
       ELSE IF CheckThrows(state)
       THEN /\ last' = Record("azureResponse", s, state, code, error, FALSE,
                              "threw", NoStatus, None, 0)
            /\ UNCHANGED pending
       ELSE IF ~LoggedIn(state)
       THEN /\ last' = Record("azureResponse", s, state, code, error, FALSE,
                              "response", StatusUnauthorized, None, 0)
            /\ UNCHANGED pending
       ELSE \* new AuthorizationCodeCredential(...); credential.getToken(scope)
            /\ pending' = [pending EXCEPT ![s] =
                 [kind |-> "getToken", username |-> state,
                  credential |-> Some([code |-> code]),
                  bearer |-> None, attempts |-> 1]]
            /\ last' = Record("azureResponse", s, state, code, error, FALSE,
                              "await", NoStatus, None, 1)
    /\ UNCHANGED << wrapper, url, nextCredential, sample, database, session, now, nextToken >>

\* what the identity provider issues at time `now`: a fresh token string that
\* expires one tick later
IssuedToken == [token |-> nextToken, expiresOnTimestamp |-> now + 1]

\* faulty variant: the result is stored under the caller's session.username instead
\* of the state parameter
GetTokenReturnsIntoSessionUser(s) ==
    LET p == pending[s]
        key == IF HasEntry(session[s]) /\ Truthy(session[s])
               THEN session[s] ELSE p.username
    IN
    /\ sample = "current"
    /\ p.kind = "getToken"
    /\ nextToken <= MaxTokens
    /\ database' = [database EXCEPT ![key].azure =
         [credential |-> p.credential, accessToken |-> Some(IssuedToken),
          error |-> None]]
    /\ nextToken' = nextToken + 1
    /\ pending' = [pending EXCEPT ![s] = Idle]
    /\ last' = Record("azureResponse", s, p.username, Get(p.credential).code,
                      Undefined, TRUE, "response", StatusFound,
                      Some(IssuedToken), p.attempts)
    /\ UNCHANGED << wrapper, url, nextCredential, sample, session, now >>

\* faulty variant: the token that getToken returned is not stored
GetTokenReturnsForgetsToken(s) ==
    LET p == pending[s] IN
    /\ sample = "current"
    /\ p.kind = "getToken"
    /\ nextToken <= MaxTokens
    /\ database' = [database EXCEPT ![ToPropertyKey(p.username)].azure =
         [credential |-> p.credential, accessToken |-> None,
          error |-> None]]
    /\ nextToken' = nextToken + 1
    /\ pending' = [pending EXCEPT ![s] = Idle]
    /\ last' = Record("azureResponse", s, p.username, Get(p.credential).code,
                      Undefined, TRUE, "response", StatusFound,
                      Some(IssuedToken), p.attempts)
    /\ UNCHANGED << wrapper, url, nextCredential, sample, session, now >>

\* credential.getToken resolved: the rest of GET /azureResponse
GetTokenReturns(s) ==
    LET p == pending[s] IN
    /\ sample = "current"
    /\ p.kind = "getToken"
    /\ nextToken <= MaxTokens
    /\ database' = [database EXCEPT ![ToPropertyKey(p.username)].azure =
         [credential |-> p.credential, accessToken |-> Some(IssuedToken),
          error |-> None]]
    /\ nextToken' = nextToken + 1
    /\ pending' = [pending EXCEPT ![s] = Idle]
    /\ last' = Record("azureResponse", s, p.username, Get(p.credential).code,
                      Undefined, TRUE, "response", StatusFound,
                      Some(IssuedToken), p.attempts)
    /\ UNCHANGED << wrapper, url, nextCredential, sample, session, now >>

\* faulty variant: a rejected getToken is called once more before the catch branch
GetTokenThrowsRetries(s) ==
    LET p == pending[s] IN
    /\ sample = "current"
    /\ p.kind = "getToken"
    /\ IF p.attempts < 2
       THEN /\ pending' = [pending EXCEPT ![s].attempts = p.attempts + 1]
            /\ last' = Record("azureResponse", s, p.username,
                              Get(p.credential).code, Undefined, TRUE,
                              "await", NoStatus, None, p.attempts + 1)
            /\ UNCHANGED database
       ELSE /\ database' = [database EXCEPT
                 ![ToPropertyKey(p.username)].azure =
                    [credential |-> p.credential, accessToken |-> None,
                     error |-> Some("AuthenticationError")]]
            /\ pending' = [pending EXCEPT ![s] = Idle]
            /\ last' = Record("azureResponse", s, p.username,
                              Get(p.credential).code, Undefined, TRUE,
                              "response", StatusFound, None, p.attempts)
    /\ UNCHANGED << wrapper, url, nextCredential, sample, session, now, nextToken >>

\* faulty variant: the catch branch stores the error next to what is stored
GetTokenThrowsKeepsToken(s) ==
    LET p == pending[s] IN
    /\ sample = "current"
    /\ p.kind = "getToken"
    /\ database' = [database EXCEPT ![ToPropertyKey(p.username)].azure.error =
         Some("AuthenticationError")]
    /\ pending' = [pending EXCEPT ![s] = Idle]
    /\ last' = Record("azureResponse", s, p.username, Get(p.credential).code,
                      Undefined, TRUE, "response", StatusFound, None,
                      p.attempts)
    /\ UNCHANGED << wrapper, url, nextCredential, sample, session, now, nextToken >>

\* credential.getToken rejected: the catch branch and the rest of the handler
GetTokenThrows(s) ==
    LET p == pending[s] IN
    /\ sample = "current"
    /\ p.kind = "getToken"
    /\ database' = [database EXCEPT ![ToPropertyKey(p.username)].azure =
         [credential |-> p.credential, accessToken |-> None,
          error |-> Some("AuthenticationError")]]
    /\ pending' = [pending EXCEPT ![s] = Idle]
    /\ last' = Record("azureResponse", s, p.username, Get(p.credential).code,
                      Undefined, TRUE, "response", StatusFound, None,
                      p.attempts)
    /\ UNCHANGED << wrapper, url, nextCredential, sample, session, now, nextToken >>

\* faulty variant: /me only looks for a stored token
MeAuthorizedTokenOnly(username) ==
    /\ Truthy(username)
    /\ Has(Entry(username).azure.accessToken)

\* the condition of GET /me: logged in and an access token is stored
MeAuthorized(username) ==
    /\ LoggedIn(username)
    /\ Has(Entry(username).azure.accessToken)

\* faulty variant: /me sends whichever access token the database holds
MeSendsAnyToken(s) ==
    LET username == session[s] IN
    /\ sample = "current"
    /\ pending[s] = Idle
    /\ IF CheckThrows(username)
       THEN /\ last' = Step("me", s, username, "threw", NoStatus)
            /\ UNCHANGED pending
       ELSE IF ~MeAuthorized(username)
       THEN /\ last' = Step("me", s, username, "response", StatusUnauthorized)
            /\ UNCHANGED pending
       ELSE \E k \in DOMAIN database :
            LET bearer == database[k].azure.accessToken IN
            /\ Has(bearer)
            /\ pending' = [pending EXCEPT ![s] =
                 [kind |-> "sendRequest", username |-> username,
                  credential |-> None, bearer |-> bearer, attempts |-> 0]]
            /\ last' = Record("me", s, username, Undefined, Undefined, FALSE,
                              "await", NoStatus, bearer, 0)
    /\ UNCHANGED << wrapper, url, nextCredential, sample, database, session, now, nextToken >>

\* faulty variant: a server that takes up a request only when no other
\* request is waiting for an upstream answer
MeSerialized(s) ==
    LET username == session[s] IN
    /\ sample = "current"
    /\ \A t \in Sessions : pending[t] = Idle
    /\ IF CheckThrows(username)
       THEN /\ last' = Step("me", s, username, "threw", NoStatus)
            /\ UNCHANGED pending
       ELSE IF ~MeAuthorized(username)
       THEN /\ last' = Step("me", s, username, "response", StatusUnauthorized)
            /\ UNCHANGED pending
       ELSE LET bearer == Entry(username).azure.accessToken IN
            /\ pending' = [pending EXCEPT ![s] =
                 [kind |-> "sendRequest", username |-> username,
                  credential |-> None, bearer |-> bearer, attempts |-> 0]]
            /\ last' = Record("me", s, username, Undefined, Undefined, FALSE,
                              "await", NoStatus, bearer, 0)
    /\ UNCHANGED << wrapper, url, nextCredential, sample, database, session, now, nextToken >>

\* GET /me up to `await client.sendRequest`
Me(s) ==
    LET username == session[s] IN
    /\ sample \in ExpressSamples
    /\ pending[s] = Idle
    /\ IF CheckThrows(username)
       THEN /\ last' = Step("me", s, username, "threw", NoStatus)
            /\ UNCHANGED pending
       ELSE IF ~MeAuthorized(username)
       THEN /\ last' = Step("me", s, username, "response", StatusUnauthorized)
            /\ UNCHANGED pending
       ELSE LET bearer == Entry(username).azure.accessToken IN
            /\ pending' = [pending EXCEPT ![s] =
                 [kind |-> "sendRequest", username |-> username,
                  credential |-> None, bearer |-> bearer, attempts |-> 0]]
            /\ last' = Record("me", s, username, Undefined, Undefined, FALSE,
                              "await", NoStatus, bearer, 0)
    /\ UNCHANGED << wrapper, url, nextCredential, sample, database, session, now, nextToken >>

\* client.sendRequest resolved: res.sendStatus(response.status)
SendRequestReturns(s, status) ==
    LET p == pending[s] IN
    /\ sample \in ExpressSamples
    /\ p.kind = "sendRequest"
    /\ pending' = [pending EXCEPT ![s] = Idle]
    /\ last' = Record("me", s, p.username, Undefined, Undefined, TRUE,
                      "response", status, p.bearer, 0)
    /\ UNCHANGED << wrapper, url, nextCredential, sample, database, session, now, nextToken >>

\* client.sendRequest rejected (a network failure): nothing catches it
SendRequestThrows(s) ==
    LET p == pending[s] IN
    /\ sample \in ExpressSamples
    /\ p.kind = "sendRequest"
    /\ pending' = [pending EXCEPT ![s] = Idle]
    /\ last' = Record("me", s, p.username, Undefined, Undefined, TRUE,
                      "threw", NoStatus, p.bearer, 0)
    /\ UNCHANGED << wrapper, url, nextCredential, sample, database, session, now, nextToken >>

\* ------------------------------- unnamed/part_000: the draft of the server

\* POST /login: reads req.body.username, but no body parser is installed, so
\* req.body is undefined and the read throws; past it, line 107 assigns
\* database[username].loggedIn without creating the entry of a new user.
DraftLogin(s, username) ==
    /\ sample = "draft"
    /\ last' = IF AlreadyAuthenticated(s)
               THEN AlreadyAuthenticatedStep(s, username)
               ELSE Step("login", s, username, "threw", NoStatus)
    /\ UNCHANGED << wrapper, url, nextCredential, sample, database, session, pending, now, nextToken >>

\* ---------------- current/test/server.ts and the On-Behalf-Of test on it

\* checkLoggedIn(username) throws: an Error when the user is not logged in,
\* a TypeError when the user has no entry
CheckLoggedInThrows(username) == CheckThrows(username) \/ ~LoggedIn(username)

\* faulty variant: the username stays on the session
ServerLogoutKeepsUsername(s) ==
    LET username == session[s] IN
    /\ sample \in ServerSamples
    /\ IF HasEntry(username)
       THEN /\ database' = [database EXCEPT
                             ![ToPropertyKey(username)].loggedIn = FALSE]
            /\ session' = session
            /\ last' = Step("logout", s, username, "response", StatusOk)
       ELSE /\ last' = Step("logout", s, username, "threw", NoStatus)
            /\ UNCHANGED << database, session >>
    /\ UNCHANGED << wrapper, url, nextCredential, sample, pending, now, nextToken >>

\* faulty variant: logout deletes the user's entry
ServerLogoutDeletesEntry(s) ==
    LET username == session[s] IN
    /\ sample \in ServerSamples
    /\ IF HasEntry(username)
       THEN /\ database' = [k \in DOMAIN database \ {ToPropertyKey(username)}
                               |-> database[k]]
            /\ session' = [session EXCEPT ![s] = Undefined]
            /\ last' = Step("logout", s, username, "response", StatusOk)
       ELSE /\ last' = Step("logout", s, username, "threw", NoStatus)
            /\ UNCHANGED << database, session >>
    /\ UNCHANGED << wrapper, url, nextCredential, sample, pending, now, nextToken >>

\* GET /logout of prepareServer
ServerLogout(s) ==
    LET username == session[s] IN
    /\ sample \in ServerSamples
    /\ IF HasEntry(username)
       THEN /\ database' = [database EXCEPT
                             ![ToPropertyKey(username)].loggedIn = FALSE]
            /\ session' = [session EXCEPT ![s] = Undefined]
            /\ last' = Step("logout", s, username, "response", StatusOk)
       ELSE /\ last' = Step("logout", s, username, "threw", NoStatus)
            /\ UNCHANGED << database, session >>
    /\ UNCHANGED << wrapper, url, nextCredential, sample, pending, now, nextToken >>

\* GET /login?username= of prepareServer
ServerLogin(s, username) ==
    /\ sample \in ServerSamples
    /\ IF Truthy(session[s])
       THEN /\ last' = AlreadyAuthenticatedStep(s, username)
            /\ UNCHANGED << database, session >>
       ELSE /\ session' = [session EXCEPT ![s] = username]
            /\ database' =
                 LET key == ToPropertyKey(username)
                     created == IF HasEntry(username) THEN database
                                ELSE Put(database, key, NewUserState)
                 IN [created EXCEPT ![key].loggedIn = TRUE]
            /\ last' = Step("login", s, username, "response", StatusOk)
    /\ UNCHANGED << wrapper, url, nextCredential, sample, pending, now, nextToken >>

\* GET /azureResponse of the On-Behalf-Of test, up to the first
\* `await credentialWrapper(credential).getToken(scope)`
OboAzureResponse(s, code, state, error) ==
    /\ sample = "obo"
    /\ pending[s] = Idle
    /\ IF ~Truthy(code) \/ CheckLoggedInThrows(state)
       THEN /\ last' = Record("azureResponse", s, state, code, error, FALSE,
                              "threw", NoStatus, None, 0)
            /\ UNCHANGED pending
       ELSE /\ pending' = [pending EXCEPT ![s] =
                 [kind |-> "getToken", username |-> state,
                  credential |-> Some([code |-> code]),
                  bearer |-> None, attempts |-> 1]]
            /\ last' = Record("azureResponse", s, state, code, error, FALSE,
                              "await", NoStatus, None, 1)
    /\ UNCHANGED << wrapper, url, nextCredential, sample, database, session, now, nextToken >>

\* a getToken call of the On-Behalf-Of callback resolved: after the first
\* (spaAccessToken) the handler builds oboCred and awaits getToken on
\* `credential` again; after the second it saves the state and redirects
OboGetTokenReturns(s) ==
    LET p == pending[s] IN
    /\ sample = "obo"
    /\ p.kind = "getToken"
    /\ nextToken <= MaxTokens
    /\ nextToken' = nextToken + 1
    /\ IF ~Has(p.bearer)
       THEN /\ pending' = [pending EXCEPT ![s] =
                 [p EXCEPT !.bearer = Some(IssuedToken),
                           !.attempts = p.attempts + 1]]
            /\ last' = Record("azureResponse", s, p.username,
                              Get(p.credential).code, Undefined, TRUE,
                              "await", NoStatus, Some(IssuedToken),
                              p.attempts + 1)
            /\ UNCHANGED database
       ELSE \* saveAzureState(username, { credential, accessToken })
            /\ database' = [database EXCEPT
                 ![ToPropertyKey(p.username)].azure =
                    [credential |-> p.credential,
                     accessToken |-> Some(IssuedToken), error |-> None]]
            /\ pending' = [pending EXCEPT ![s] = Idle]
            /\ last' = Record("azureResponse", s, p.username,
                              Get(p.credential).code, Undefined, TRUE,
                              "response", StatusFound, Some(IssuedToken),
                              p.attempts)
    /\ UNCHANGED << wrapper, url, nextCredential, sample, session, now >>

\* a getToken call of the On-Behalf-Of callback rejected: nothing catches it
OboGetTokenThrows(s) ==
    LET p == pending[s] IN
    /\ sample = "obo"
    /\ p.kind = "getToken"
    /\ pending' = [pending EXCEPT ![s] = Idle]
    /\ last' = Record("azureResponse", s, p.username, Get(p.credential).code,
                      Undefined, TRUE, "threw", NoStatus, p.bearer,
                      p.attempts)
    /\ UNCHANGED << wrapper, url, nextCredential, sample, database, session, now, nextToken >>

\* extractToken(username) throws: database[username].azure?.accessToken.token
\* reads .token of undefined while no access token is saved
ExtractTokenThrows(username) == ~Has(Entry(username).azure.accessToken)

\* GET /me of the On-Behalf-Of test, up to `await sendRequest(client, request)`
OboMe(s) ==
    LET username == session[s] IN
    /\ sample = "obo"
    /\ pending[s] = Idle
    /\ IF CheckLoggedInThrows(username) \/ ExtractTokenThrows(username)
       THEN /\ last' = Step("me", s, username, "threw", NoStatus)
            /\ UNCHANGED pending
       ELSE LET bearer == Entry(username).azure.accessToken IN
            /\ pending' = [pending EXCEPT ![s] =
                 [kind |-> "sendRequest", username |-> username,
                  credential |-> None, bearer |-> bearer, attempts |-> 0]]
            /\ last' = Record("me", s, username, Undefined, Undefined, FALSE,
                              "await", NoStatus, bearer, 0)
    /\ UNCHANGED << wrapper, url, nextCredential, sample, database, session, now, nextToken >>

\* sendRequest resolved: res.send(JSON.stringify(response)) answers 200 and
\* carries the upstream response, its status included, in the body
OboSendRequestReturns(s) ==
    LET p == pending[s] IN
    /\ sample = "obo"
    /\ p.kind = "sendRequest"
    /\ pending' = [pending EXCEPT ![s] = Idle]
    /\ last' = Record("me", s, p.username, Undefined, Undefined, TRUE,
                      "response", StatusOk, p.bearer, 0)
    /\ UNCHANGED << wrapper, url, nextCredential, sample, database, session, now, nextToken >>

\* sendRequest rejected: nothing catches it
OboSendRequestThrows(s) ==
    LET p == pending[s] IN
    /\ sample = "obo"
    /\ p.kind = "sendRequest"
    /\ pending' = [pending EXCEPT ![s] = Idle]
    /\ last' = Record("me", s, p.username, Undefined, Undefined, TRUE,
                      "threw", NoStatus, p.bearer, 0)
    /\ UNCHANGED << wrapper, url, nextCredential, sample, database, session, now, nextToken >>

\* ------------------- current/test/test.spec.ts: the handlers of the test

\* GET /azureLogin: checkLoggedIn, then res.redirect(getAuthorizeUrl(...))
HarnessAzureLogin(s) ==
    LET username == session[s] IN
    /\ sample = "harness"
    /\ last' = IF CheckLoggedInThrows(username)
               THEN Step("azureLogin", s, username, "threw", NoStatus)
               ELSE Step("azureLogin", s, username, "response", StatusFound)
    /\ UNCHANGED << wrapper, url, nextCredential, sample, database, session, pending, now, nextToken >>

\* GET /azureResponse up to `await credentialWrapper(credential).getToken`
HarnessAzureResponse(s, code, state, error) ==
    /\ sample = "harness"
    /\ pending[s] = Idle
    /\ IF CodeMissing(code) \/ CheckLoggedInThrows(state)
       THEN /\ last' = Record("azureResponse", s, state, code, error, FALSE,
                              "threw", NoStatus, None, 0)
            /\ UNCHANGED pending
       ELSE /\ pending' = [pending EXCEPT ![s] =
                 [kind |-> "getToken", username |-> state,
                  credential |-> Some([code |-> code]),
                  bearer |-> None, attempts |-> 1]]
            /\ last' = Record("azureResponse", s, state, code, error, FALSE,
                              "await", NoStatus, None, 1)
    /\ UNCHANGED << wrapper, url, nextCredential, sample, database, session, now, nextToken >>

\* getToken resolved: saveAzureState(username, { credential, accessToken })
\* and res.sendStatus(200)
HarnessGetTokenReturns(s) ==
    LET p == pending[s] IN
    /\ sample = "harness"
    /\ p.kind = "getToken"
    /\ nextToken <= MaxTokens
    /\ nextToken' = nextToken + 1
    /\ database' = [database EXCEPT ![ToPropertyKey(p.username)].azure =
         [credential |-> p.credential, accessToken |-> Some(IssuedToken),
          error |-> None]]
    /\ pending' = [pending EXCEPT ![s] = Idle]
    /\ last' = Record("azureResponse", s, p.username, Get(p.credential).code,
                      Undefined, TRUE, "response", StatusOk,
                      Some(IssuedToken), p.attempts)
    /\ UNCHANGED << wrapper, url, nextCredential, sample, session, now >>

\* getToken rejected: the handler has no try/catch, the rejection propagates
HarnessGetTokenThrows(s) ==
    LET p == pending[s] IN
    /\ sample = "harness"
    /\ p.kind = "getToken"
    /\ pending' = [pending EXCEPT ![s] = Idle]
    /\ last' = Record("azureResponse", s, p.username, Get(p.credential).code,
                      Undefined, TRUE, "threw", NoStatus, None, p.attempts)
    /\ UNCHANGED << wrapper, url, nextCredential, sample, database, session, now, nextToken >>

\* GET /me up to `await sendRequest(client, request)`
HarnessMe(s) ==
    LET username == session[s] IN
    /\ sample = "harness"
    /\ pending[s] = Idle
    /\ IF CheckLoggedInThrows(username) \/ ExtractTokenThrows(username)
       THEN /\ last' = Step("me", s, username, "threw", NoStatus)
            /\ UNCHANGED pending
       ELSE LET bearer == Entry(username).azure.accessToken IN
            /\ pending' = [pending EXCEPT ![s] =
                 [kind |-> "sendRequest", username |-> username,
                  credential |-> None, bearer |-> bearer, attempts |-> 0]]
            /\ last' = Record("me", s, username, Undefined, Undefined, FALSE,
                              "await", NoStatus, bearer, 0)
    /\ UNCHANGED << wrapper, url, nextCredential, sample, database, session, now, nextToken >>

\* sendRequest resolved: res.send(JSON.stringify(response)) answers 200
HarnessSendRequestReturns(s) ==
    LET p == pending[s] IN
    /\ sample = "harness"
    /\ p.kind = "sendRequest"
    /\ pending' = [pending EXCEPT ![s] = Idle]
    /\ last' = Record("me", s, p.username, Undefined, Undefined, TRUE,
                      "response", StatusOk, p.bearer, 0)
    /\ UNCHANGED << wrapper, url, nextCredential, sample, database, session, now, nextToken >>

\* sendRequest rejected: nothing catches it
HarnessSendRequestThrows(s) ==
    LET p == pending[s] IN
    /\ sample = "harness"
    /\ p.kind = "sendRequest"
    /\ pending' = [pending EXCEPT ![s] = Idle]
    /\ last' = Record("me", s, p.username, Undefined, Undefined, TRUE,
                      "threw", NoStatus, p.bearer, 0)
    /\ UNCHANGED << wrapper, url, nextCredential, sample, database, session, now, nextToken >>

\* --------------------------- ideal.ts: the server on WebRedirectCredential

\* faulty variant: /azureLogin assigns the credential field and keeps the rest
\* of the Azure state
IdealAzureLoginKeepsToken(s) ==
    LET username == session[s] IN
    /\ sample = "ideal"
    /\ nextCredential <= MaxCredentials
    /\ IF CheckThrows(username)
       THEN /\ last' = Step("azureLogin", s, username, "threw", NoStatus)
            /\ UNCHANGED << database, nextCredential >>
       ELSE IF ~LoggedIn(username)
       THEN /\ last' = Step("azureLogin", s, username, "response",
                            StatusUnauthorized)
            /\ UNCHANGED << database, nextCredential >>
       ELSE /\ database' = [database EXCEPT ![ToPropertyKey(username)].azure.credential =
                 Some([id |-> nextCredential])]
            /\ nextCredential' = nextCredential + 1
            /\ last' = Step("azureLogin", s, username, "response", StatusFound)
    /\ UNCHANGED << wrapper, url, sample, session, pending, now, nextToken >>

\* GET /azureLogin: a new WebRedirectCredential replaces the Azure state
\*     database[username].azure = { credential }
\* and the browser is redirected to credential.getRedirectUri(scope, {state})
IdealAzureLogin(s) ==
    LET username == session[s] IN
    /\ sample = "ideal"
    /\ nextCredential <= MaxCredentials
    /\ IF CheckThrows(username)
       THEN /\ last' = Step("azureLogin", s, username, "threw", NoStatus)
            /\ UNCHANGED << database, nextCredential >>
       ELSE IF ~LoggedIn(username)
       THEN /\ last' = Step("azureLogin", s, username, "response",
                            StatusUnauthorized)
            /\ UNCHANGED << database, nextCredential >>
       ELSE /\ database' = [database EXCEPT ![ToPropertyKey(username)].azure =
                 [credential |-> Some([id |-> nextCredential]),
                  accessToken |-> None, error |-> None]]
            /\ nextCredential' = nextCredential + 1
            /\ last' = Step("azureLogin", s, username, "response", StatusFound)
    /\ UNCHANGED << wrapper, url, sample, session, pending, now, nextToken >>

\* faulty variant: the callback builds a credential of its own, as the
\* callback of test.ts does, and never looks at the stored one
IdealAzureResponseOwnCredential(s, code, state, error) ==
    /\ sample = "ideal"
    /\ pending[s] = Idle
    /\ IF CodeMissing(code) \/ CheckThrows(state)
       THEN /\ last' = Record("azureResponse", s, state, code, error, FALSE,
                              "threw", NoStatus, None, 0)
            /\ UNCHANGED pending
       ELSE IF ~LoggedIn(state)
       THEN /\ last' = Record("azureResponse", s, state, code, error, FALSE,
                              "response", StatusUnauthorized, None, 0)
            /\ UNCHANGED pending
       ELSE /\ pending' = [pending EXCEPT ![s] =
                 [kind |-> "getToken", username |-> state,
                  credential |-> Some([id |-> nextCredential]),
                  bearer |-> None, attempts |-> 1]]
            /\ last' = Record("azureResponse", s, state, code, error, FALSE,
                              "await", NoStatus, None, 1)
    /\ UNCHANGED << wrapper, url, nextCredential, sample, database, session, now, nextToken >>

\* GET /azureResponse up to `await credential.getToken(scope)`, credential
\* being database[username].azure.credential; when no credential is stored,
\* credential.getToken throws a TypeError inside the try block, which the
\* catch stores as the error before the redirect
IdealAzureResponse(s, code, state, error) ==
    /\ sample = "ideal"
    /\ pending[s] = Idle
    /\ IF CodeMissing(code) \/ CheckThrows(state)
       THEN /\ last' = Record("azureResponse", s, state, code, error, FALSE,
                              "threw", NoStatus, None, 0)
            /\ UNCHANGED << pending, database >>
       ELSE IF ~LoggedIn(state)
       THEN /\ last' = Record("azureResponse", s, state, code, error, FALSE,
                              "response", StatusUnauthorized, None, 0)
            /\ UNCHANGED << pending, database >>
       ELSE IF ~Has(Entry(state).azure.credential)
       THEN /\ database' = [database EXCEPT
                 ![ToPropertyKey(state)].azure.error = Some("TypeError")]
            /\ last' = Record("azureResponse", s, state, code, error, FALSE,
                              "response", StatusFound, None, 0)
            /\ UNCHANGED pending
       ELSE /\ pending' = [pending EXCEPT ![s] =
                 [kind |-> "getToken", username |-> state,
                  credential |-> Entry(state).azure.credential,
                  bearer |-> None, attempts |-> 1]]
            /\ last' = Record("azureResponse", s, state, code, error, FALSE,
                              "await", NoStatus, None, 1)
            /\ UNCHANGED database
    /\ UNCHANGED << wrapper, url, nextCredential, sample, session, now, nextToken >>

\* getToken resolved: database[username].azure.accessToken = accessToken, on
\* the Azure state that is stored now; then the redirect
IdealGetTokenReturns(s) ==
    LET p == pending[s] IN
    /\ sample = "ideal"
    /\ p.kind = "getToken"
    /\ nextToken <= MaxTokens
    /\ nextToken' = nextToken + 1
    /\ database' = [database EXCEPT
         ![ToPropertyKey(p.username)].azure.accessToken = Some(IssuedToken)]
    /\ pending' = [pending EXCEPT ![s] = Idle]
    /\ last' = Record("azureResponse", s, p.username, FakeCode, Undefined,
                      TRUE, "response", StatusFound, Some(IssuedToken),
                      p.attempts)
    /\ UNCHANGED << wrapper, url, nextCredential, sample, session, now >>

\* getToken rejected: database[username].azure.error = e, on the Azure state
\* that is stored now; then the redirect
IdealGetTokenThrows(s) ==
    LET p == pending[s] IN
    /\ sample = "ideal"
    /\ p.kind = "getToken"
    /\ database' = [database EXCEPT
         ![ToPropertyKey(p.username)].azure.error =
            Some("AuthenticationError")]
    /\ pending' = [pending EXCEPT ![s] = Idle]
    /\ last' = Record("azureResponse", s, p.username, FakeCode, Undefined,
                      TRUE, "response", StatusFound, None, p.attempts)
    /\ UNCHANGED << wrapper, url, nextCredential, sample, session, now, nextToken >>

\* ------------------------------- new/test/wrappers.ts: the test wrappers

\* date.setDate(date.getDate() + 1): the canned token expires a day later
OneDay == 1

\* values of process.env.TEST_MODE; the comparison is with "playback" exactly
TestModes == {Undefined, "playback", "PLAYBACK", "record", "live"}

\* what a call on the wrapped credential or HTTP client produces: one of two
\* values, or a rejection
WrappedOutcomes == {"first", "second", "rejected"}

\* process.env.TEST_MODE !== "playback"
Delegates(testMode) == testMode # "playback"

\* the canned values of the three wrappers
CannedToken(at) == [token |-> "TOKEN", expiresOnTimestamp |-> at + OneDay]
CannedRecord ==
    [authority |-> "authority", clientId |-> "client-id",
     homeAccountId |-> "home-account-id", tenantId |-> "tenant-id",
     username |-> "username"]
CannedResponse == [value |-> "PLAYBACK SUCCESSFUL RESPONSE"]

\* one call of a wrapper: it delegates, or returns `canned`
WrapperCall(call, canned, outcome) ==
    IF Delegates(wrapper.testMode)
    THEN [testMode |-> wrapper.testMode, call |-> call, at |-> now,
          delegated |-> 1, wrapped |-> Some(outcome),
          returned |-> Some(outcome)]
    ELSE [testMode |-> wrapper.testMode, call |-> call, at |-> now,
          delegated |-> 0, wrapped |-> None, returned |-> Some(canned)]

\* the environment of the test run sets TEST_MODE
SetTestMode(testMode) ==
    /\ sample = "new"
    /\ wrapper' = [wrapper EXCEPT !.testMode = testMode]
    /\ UNCHANGED << url, nextCredential, sample, database, session, pending,
                    now, nextToken, last >>

\* faulty variant: getToken calls the credential in every mode and returns
\* the canned token in playback
WrapperGetTokenAlwaysCalls(outcome) ==
    /\ sample = "new"
    /\ wrapper' = [WrapperCall("getToken", CannedToken(now), outcome)
                     EXCEPT !.delegated = 1, !.wrapped = Some(outcome)]
    /\ UNCHANGED << url, nextCredential, sample, database, session, pending,
                    now, nextToken, last >>

\* credentialWrapper(credential).getToken(scopes)
WrapperGetToken(outcome) ==
    /\ sample = "new"
    /\ wrapper' = WrapperCall("getToken", CannedToken(now), outcome)
    /\ UNCHANGED << url, nextCredential, sample, database, session, pending,
                    now, nextToken, last >>

\* credentialWrapper(credential).authenticate(scopes, authorizationCode)
WrapperAuthenticate(outcome) ==
    /\ sample = "new"
    /\ wrapper' = WrapperCall("authenticate", CannedRecord, outcome)
    /\ UNCHANGED << url, nextCredential, sample, database, session, pending,
                    now, nextToken, last >>

\* sendRequest(client, request)
WrapperSendRequest(outcome) ==
    /\ sample = "new"
    /\ wrapper' = WrapperCall("sendRequest", CannedResponse, outcome)
    /\ UNCHANGED << url, nextCredential, sample, database, session, pending,
                    now, nextToken, last >>

\* the wall clock advances
Tick ==
    /\ now < MaxTime
    /\ now' = now + 1
    /\ UNCHANGED << wrapper, url, nextCredential, sample, database, session, pending, nextToken, last >>

\* ------------------------------------------- URLs and query strings
\* A string is a sequence of symbols: single characters, and words made of
\* unreserved characters only (parameter names, fixed values, host names),
\* which no encoding or decoding changes.

\* the characters a username or a parameter value is made of
Chars == {"x", "2", "&", "+", "%", " ", "#"}

\* percent-encoding of the characters that are not unreserved
Escapes == [c \in {"&", "+", "%", " ", "#"} |->
              CASE c = "&" -> << "%", "2", "6" >>
                [] c = "+" -> << "%", "2", "B" >>
                [] c = "%" -> << "%", "2", "5" >>
                [] c = " " -> << "%", "2", "0" >>
                [] c = "#" -> << "%", "2", "3" >>]

HexDigits == {"0", "2", "3", "5", "6", "B"}

\* the character a percent-escape with these two hex digits stands for
Unescape(hi, lo) ==
    CASE hi = "2" /\ lo = "0" -> " "
      [] hi = "2" /\ lo = "2" -> "\""
      [] hi = "2" /\ lo = "3" -> "#"
      [] hi = "2" /\ lo = "5" -> "%"
      [] hi = "2" /\ lo = "6" -> "&"
      [] hi = "2" /\ lo = "B" -> "+"
      [] OTHER -> "?"

IsEscapeAt(str, i) ==
    /\ str[i] = "%"
    /\ i + 2 <= Len(str)
    /\ str[i + 1] \in HexDigits /\ str[i + 2] \in HexDigits

\* URLSearchParams.toString(): application/x-www-form-urlencoded; a space
\* becomes "+", every other character that is not unreserved is escaped
RECURSIVE FormEncode(_)
FormEncode(str) ==
    IF str = << >> THEN << >>
    ELSE LET c == Head(str) IN
         (IF c = " " THEN << "+" >>
          ELSE IF c \in DOMAIN Escapes THEN Escapes[c]
          ELSE << c >>) \o FormEncode(Tail(str))

\* name=value pairs joined by "&"
RECURSIVE Serialize(_)
Serialize(params) ==
    IF params = << >> THEN << >>
    ELSE FormEncode(params[1][1]) \o << "=" >> \o FormEncode(params[1][2])
         \o (IF Len(params) > 1
             THEN << "&" >> \o Serialize(Tail(params))
             ELSE << >>)

\* name=value pairs joined by "&", the values left as they are
RECURSIVE Join(_)
Join(params) ==
    IF params = << >> THEN << >>
    ELSE params[1][1] \o << "=" >> \o params[1][2]
         \o (IF Len(params) > 1 THEN << "&" >> \o Join(Tail(params))
             ELSE << >>)

\* faulty variant: the query is put together without URLSearchParams
getAuthorizeUrlUnencoded(tenantId, clientId, scopes, state, redirectUri) ==
    << "https://login.microsoftonline.com/" >> \o tenantId
      \o << "/oauth2/v2.0/authorize", "?" >>
      \o Join(<< << << "client_id" >>, clientId >>,
                 << << "response_type" >>, << "code" >> >>,
                 << << "redirect_uri" >>, redirectUri >>,
                 << << "scope" >>, scopes >>,
                 << << "state" >>, state >> >>)

\* getAuthorizeUrl(tenantId, clientId, scopes, state), redirectUri being the
\* module constant in test.ts and a parameter in test.spec.ts
getAuthorizeUrl(tenantId, clientId, scopes, state, redirectUri) ==
    << "https://login.microsoftonline.com/" >> \o tenantId
      \o << "/oauth2/v2.0/authorize", "?" >>
      \o Serialize(<< << << "client_id" >>, clientId >>,
                      << << "response_type" >>, << "code" >> >>,
                      << << "redirect_uri" >>, redirectUri >>,
                      << << "scope" >>, scopes >>,
                      << << "state" >>, state >> >>)

\* index of the first occurrence of sep in str, 0 when there is none
IndexOf(str, sep) ==
    IF \E i \in 1..Len(str) : str[i] = sep
    THEN CHOOSE i \in 1..Len(str) :
            str[i] = sep /\ \A j \in 1..(i - 1) : str[j] # sep
    ELSE 0

\* String.prototype.split(sep)
RECURSIVE Split(_, _)
Split(str, sep) ==
    LET i == IndexOf(str, sep) IN
    IF i = 0 THEN << str >>
    ELSE << SubSeq(str, 1, i - 1) >> \o Split(SubSeq(str, i + 1, Len(str)), sep)

\* res.redirect(url) sets Location to encodeUrl(url): characters that may not
\* appear in a URL are escaped, a "%" that starts no escape becomes "%25",
\* and everything else (also "&", "+", "#") is left as it is
RECURSIVE EncodeUrlFrom(_, _)
EncodeUrlFrom(str, i) ==
    IF i > Len(str) THEN << >>
    ELSE (IF str[i] = " " THEN Escapes[" "]
          ELSE IF str[i] = "%" /\ ~IsEscapeAt(str, i) THEN Escapes["%"]
          ELSE << str[i] >>) \o EncodeUrlFrom(str, i + 1)

EncodeUrl(str) == EncodeUrlFrom(str, 1)

\* the browser requests the Location without its fragment; req.query is the
\* parse of what follows the first "?"
RequestQueryString(location) ==
    LET h == IndexOf(location, "#")
        target == IF h = 0 THEN location ELSE SubSeq(location, 1, h - 1)
        q == IndexOf(target, "?")
    IN IF q = 0 THEN << >> ELSE SubSeq(target, q + 1, Len(target))

\* decoding of a query component: "+" is a space, %XX is the character
RECURSIVE FormDecodeFrom(_, _)
FormDecodeFrom(str, i) ==
    IF i > Len(str) THEN << >>
    ELSE IF str[i] = "+" THEN << " " >> \o FormDecodeFrom(str, i + 1)
    ELSE IF IsEscapeAt(str, i)
    THEN << Unescape(str[i + 1], str[i + 2]) >> \o FormDecodeFrom(str, i + 3)
    ELSE << str[i] >> \o FormDecodeFrom(str, i + 1)

FormDecode(str) == FormDecodeFrom(str, 1)

\* one "name=value" segment: split at the first "=", both sides decoded
ParsePair(segment) ==
    LET e == IndexOf(segment, "=") IN
    IF e = 0 THEN << FormDecode(segment), << >> >>
    ELSE << FormDecode(SubSeq(segment, 1, e - 1)),
            FormDecode(SubSeq(segment, e + 1, Len(segment))) >>

\* the query parser of express: the non-empty "&"-separated segments
RECURSIVE ParseSegments(_)
ParseSegments(segments) ==
    IF segments = << >> THEN << >>
    ELSE (IF Head(segments) = << >> THEN << >>
          ELSE << ParsePair(Head(segments)) >>)
         \o ParseSegments(Tail(segments))

ParseQuery(queryString) == ParseSegments(Split(queryString, "&"))

\* req.query[name] for a name that occurs at most once
QueryGet(query, name) ==
    IF \E i \in 1..Len(query) : query[i][1] = << name >>
    THEN query[CHOOSE i \in 1..Len(query) : query[i][1] = << name >>][2]
    ELSE << Undefined >>

\* the strings of at most n characters
Strings(n) == UNION {[1..k -> Chars] : k \in 0..n}

\* what the configuration values (client id, scope, redirect URI) are drawn from
ConfigValues == {<< "x" >>, << "&", " " >>}

\* the tenant of the authority: a host-name-like word
TenantIds == {<< "tenant" >>}

serverVars == << sample, database, session, pending, now, nextToken, last,
                nextCredential, wrapper >>

\* a browser whose session is logged in as `state` is about to request
\* /azureLogin
UrlInit ==
    /\ sample = "current"
    /\ database = [k \in {} |-> NewUserState]
    /\ session = [s \in Sessions |-> Undefined]
    /\ pending = [s \in Sessions |-> Idle]
    /\ now = 0
    /\ nextToken = 1
    /\ nextCredential = 1
    /\ wrapper = NotCalled(Undefined)
    /\ last = Step("start", 1, Undefined, "none", NoStatus)
    /\ \E tenantId \in TenantIds, clientId \in ConfigValues,
          scopes \in ConfigValues, redirectUri \in ConfigValues,
          state \in Strings(MaxLen) \ {<< >>} :
          url = [UrlIdle EXCEPT !.stage = "loggedIn", !.tenantId = tenantId,
                                !.clientId = clientId, !.scopes = scopes,
                                !.redirectUri = redirectUri, !.state = state]

\* GET /azureLogin past its check: the authorize URL is built and the browser
\* is redirected to /azureFakeRedirect with the query of that URL
UrlAzureLogin ==
    /\ url.stage = "loggedIn"
    /\ LET authorizeUrl == getAuthorizeUrl(url.tenantId, url.clientId,
                                           url.scopes, url.state,
                                           url.redirectUri)
           query == Split(authorizeUrl, "?")[2]
       IN url' = [url EXCEPT
            !.stage = "azureLogin",
            !.authorizeUrl = authorizeUrl,
            !.location = EncodeUrl(<< "/azureFakeRedirect", "?" >> \o query)]
    /\ UNCHANGED serverVars

\* the browser follows the redirect: GET /azureFakeRedirect?<query>
UrlRequestFakeRedirect ==
    /\ url.stage = "azureLogin"
    /\ url' = [url EXCEPT
         !.stage = "azureFakeRedirect",
         !.query = ParseQuery(RequestQueryString(url.location))]
    /\ UNCHANGED serverVars

\* GET /azureFakeRedirect:
\* res.redirect(`/azureResponse?code=XXXXXXXXX&state=${req.query.state}`)
UrlAzureFakeRedirect ==
    /\ url.stage = "azureFakeRedirect"
    /\ url' = [url EXCEPT
         !.stage = "redirected",
         !.location = EncodeUrl(<< "/azureResponse", "?", "code", "=", FakeCode,
                                   "&", "state", "=" >>
                                \o QueryGet(url.query, "state"))]
    /\ UNCHANGED serverVars

\* the browser follows the redirect: GET /azureResponse?code=...&state=...,
\* where the handler reads req.query["state"]
UrlRequestAzureResponse ==
    /\ url.stage = "redirected"
    /\ url' = [url EXCEPT
         !.stage = "azureResponse",
         !.query = ParseQuery(RequestQueryString(url.location)),
         !.got = QueryGet(ParseQuery(RequestQueryString(url.location)),
                          "state")]
    /\ UNCHANGED serverVars

UrlNext ==
    \/ UrlAzureLogin
    \/ UrlRequestFakeRedirect
    \/ UrlAzureFakeRedirect
    \/ UrlRequestAzureResponse

UrlSpec == UrlInit /\ [][UrlNext]_vars

\* ------------------------------------------ the end-to-end scenario
\* One browser runs the requests of the test in order, against test.ts with
\* an empty store: /login, /azureLogin, the two redirects that /azureLogin
\* and /azureFakeRedirect answer, and /me once the callback has ended.
ScenarioInit ==
    /\ Init
    /\ sample = "current"

ScenarioNext ==
    \/ /\ last.op = "start"
       /\ \E s \in Sessions, u \in Usernames : Login(s, u)
    \/ /\ last.op = "login"
       /\ AzureLogin(last.session)
    \/ AzureFakeRedirect(last.session, last.username)
    \/ /\ last.op = "azureFakeRedirect"
       /\ AzureResponse(last.session, last.code, last.username, Undefined)
    \/ GetTokenReturns(last.session)
    \/ GetTokenThrows(last.session)
    \/ /\ last.op = "azureResponse" /\ last.outcome = "response"
       /\ Me(last.session)
    \/ \E st \in UpstreamStatuses : SendRequestReturns(last.session, st)
    \/ SendRequestThrows(last.session)
    \/ Tick

ScenarioSpec == ScenarioInit /\ [][ScenarioNext]_vars

\* the /me request of the scenario has ended
ScenarioDone == last.op = "me" /\ last.outcome # "await"

Next ==
    \/ \E s \in Sessions : Logout(s)
    \/ \E s \in Sessions, u \in Usernames : Login(s, u)
    \/ \E s \in Sessions : AzureLogin(s)
    \/ \E s \in Sessions, u \in StateParams : AzureFakeRedirect(s, u)
    \/ \E s \in Sessions, q \in CallbackQueries, u \in StateParams :
          AzureResponse(s, q.code, u, q.error)
    \/ \E s \in Sessions : GetTokenReturns(s)
    \/ \E s \in Sessions : GetTokenThrows(s)
    \/ \E s \in Sessions : Me(s)
    \/ \E s \in Sessions, st \in UpstreamStatuses : SendRequestReturns(s, st)
    \/ \E s \in Sessions : SendRequestThrows(s)
    \/ \E s \in Sessions, u \in Usernames : DraftLogin(s, u)
    \/ \E s \in Sessions : ServerLogout(s)
    \/ \E s \in Sessions, u \in Usernames : ServerLogin(s, u)
    \/ \E s \in Sessions, q \in CallbackQueries, u \in StateParams :
          OboAzureResponse(s, q.code, u, q.error)
    \/ \E s \in Sessions : OboGetTokenReturns(s)
    \/ \E s \in Sessions : OboGetTokenThrows(s)
    \/ \E s \in Sessions : OboMe(s)
    \/ \E s \in Sessions : OboSendRequestReturns(s)
    \/ \E s \in Sessions : OboSendRequestThrows(s)
    \/ Tick

Spec == Init /\ [][Next]_vars

\* the server of current/test/test.spec.ts
HarnessInit == sample = "harness" /\ Constructed

HarnessNext ==
    \/ \E s \in Sessions : ServerLogout(s)
    \/ \E s \in Sessions, u \in Usernames : ServerLogin(s, u)
    \/ \E s \in Sessions : HarnessAzureLogin(s)
    \/ \E s \in Sessions, q \in CallbackQueries, u \in StateParams :
          HarnessAzureResponse(s, q.code, u, q.error)
    \/ \E s \in Sessions : HarnessGetTokenReturns(s)
    \/ \E s \in Sessions : HarnessGetTokenThrows(s)
    \/ \E s \in Sessions : HarnessMe(s)
    \/ \E s \in Sessions : HarnessSendRequestReturns(s)
    \/ \E s \in Sessions : HarnessSendRequestThrows(s)
    \/ Tick

HarnessSpec == HarnessInit /\ [][HarnessNext]_vars

\* the server of ideal.ts without its /me; nothing in ideal.ts reads the
\* clock, which stands still
IdealInit == sample = "ideal" /\ Constructed

IdealNext ==
    \/ \E s \in Sessions : Logout(s)
    \/ \E s \in Sessions, u \in Usernames : Login(s, u)
    \/ \E s \in Sessions : IdealAzureLogin(s)
    \/ \E s \in Sessions, q \in CallbackQueries, u \in StateParams :
          IdealAzureResponse(s, q.code, u, q.error)
    \/ \E s \in Sessions : IdealGetTokenReturns(s)
    \/ \E s \in Sessions : IdealGetTokenThrows(s)

IdealSpec == IdealInit /\ [][IdealNext]_vars

\* the wrappers of new/test, called by a test in any order
WrapperInit == sample = "new" /\ Constructed

WrapperNext ==
    \/ \E testMode \in TestModes : SetTestMode(testMode)
    \/ \E outcome \in WrappedOutcomes : WrapperGetToken(outcome)
    \/ \E outcome \in WrappedOutcomes : WrapperAuthenticate(outcome)
    \/ \E outcome \in WrappedOutcomes : WrapperSendRequest(outcome)
    \/ Tick

WrapperSpec == WrapperInit /\ [][WrapperNext]_vars

\* the same server with its /me
IdealMeNext ==
    \/ IdealNext
    \/ \E s \in Sessions : Me(s)
    \/ \E s \in Sessions, st \in UpstreamStatuses : SendRequestReturns(s, st)
    \/ \E s \in Sessions : SendRequestThrows(s)

IdealMeSpec == IdealInit /\ [][IdealMeNext]_vars

\* ------------------------------------------------------------- properties

\* this step ran handler `op` from its start (it did not resume an await)
Started(op) == last'.op = op /\ ~last'.resumed /\ last' # last

\* the state parameter corresponds to no currently logged-in session: it is
\* absent, names no database entry, or names a user marked logged out
NoLoggedInSession(state) ==
    \/ ~Truthy(state)
    \/ ~HasEntry(state)
    \/ ~Entry(state).loggedIn

\* Date.now() has reached the token's expiresOnTimestamp
Expired(token) == now >= token.expiresOnTimestamp

\* C1: whenever /me has just sent a stored access token upstream, the token is
\* the one stored under the requesting session's username and that user's
\* database entry has loggedIn = true; the Azure state of a user marked logged
\* out is never read out by the proxy.
C1_MeSendsOnlyWhenLoggedIn ==
    (last.op = "me" /\ last.outcome = "await") =>
        /\ last.username = session[last.session]
        /\ HasEntry(last.username)
        /\ Entry(last.username).loggedIn
        /\ last.bearer = Entry(last.username).azure.accessToken
        /\ pending[last.session].bearer = last.bearer

\* C1 witness: one session's /me is upstream with the token while another
\* session of the same, now logged-out, user has just been answered 401
\* although the token is still stored.
C1_Witness ==
    /\ last.op = "me" /\ ~last.resumed /\ last.status = StatusUnauthorized
    /\ Truthy(last.username) /\ HasEntry(last.username)
    /\ Has(Entry(last.username).azure.accessToken)
    /\ \E s \in Sessions : pending[s].kind = "sendRequest"

\* C2: a callback that carries a code and whose state is absent, names a user
\* without database entry, or names a user whose loggedIn is false, is
\* rejected (401, or the handler throws on the missing entry), makes no
\* getToken call and leaves database, sessions and suspended invocations as
\* they were.
C2_CallbackRejectsUnknownState ==
    [][(Started("azureResponse") /\ Truthy(last'.code)
          /\ NoLoggedInSession(last'.username))
       => /\ \/ last'.outcome = "threw"
             \/ last'.outcome = "response" /\ last'.status = StatusUnauthorized
          /\ last'.attempts = 0
          /\ pending' = pending
          /\ database' = database
          /\ session' = session]_vars

\* C2 witness: a callback with a code for a user who holds a token but is
\* marked logged out has just been answered 401.
C2_Witness ==
    /\ last.op = "azureResponse" /\ ~last.resumed /\ Truthy(last.code)
    /\ last.status = StatusUnauthorized
    /\ HasEntry(last.username) /\ ~Entry(last.username).loggedIn
    /\ Has(Entry(last.username).azure.accessToken)

\* C3 as claimed: a callback reaches the token exchange (and so changes the
\* Azure state of u) only when the browser session that issued it is logged
\* in as u.
C3_CallbackFromOwnSessionOnly ==
    (last.op = "azureResponse" /\ last.outcome = "await")
        => session[last.session] = last.username

\* C3 amended: the Azure state of u changes only when a callback whose state
\* parameter is u resumes from its getToken call, and a callback reaches
\* getToken only when database[state].loggedIn was true at its check; the
\* issuing browser session is not looked at.
C3_CallbackKeyedByState ==
    [][/\ (Started("azureResponse") /\ last'.outcome = "await")
            => /\ HasEntry(last'.username)
               /\ Truthy(last'.username)
               /\ Entry(last'.username).loggedIn
       /\ \A u \in Usernames :
            (HasEntry(u) /\ database'[u].azure # database[u].azure)
            => /\ last'.op = "azureResponse" /\ last'.resumed
               /\ last'.username = u
               /\ pending[last'.session].kind = "getToken"
               /\ pending[last'.session].username = u]_vars

\* C3 witness: a callback issued by a session that is logged in as another
\* user has stored a token under the user its state parameter names.
C3_Witness ==
    /\ sample = "current"
    /\ last.op = "azureResponse" /\ last.resumed /\ Has(last.bearer)
    /\ last.outcome = "response"
    /\ Truthy(session[last.session])
    /\ session[last.session] # last.username
    /\ Entry(last.username).azure.accessToken = last.bearer

\* C4 as claimed (its "in particular"): when u has just logged out, nothing is
\* suspended, and u logs in again, /me is not yet authorized for u: a new
\* login alone, without a new callback, does not restore the ability to call
\* /me.
C4_LoginAloneDoesNotRestoreMe ==
    [][(/\ Started("login")
        /\ last'.outcome = "response" /\ last'.status = StatusOk
        /\ last.op = "logout" /\ last.status = StatusOk
        /\ last.username = last'.username
        /\ \A s \in Sessions : pending[s] = Idle)
       => ~(/\ database'[last'.username].loggedIn
            /\ Has(database'[last'.username].azure.accessToken))]_vars

\* C5 as claimed: when a callback for u has just stored a token and the next
\* request is /me from a session whose username is u, /me sends that token
\* upstream.
C5_MeUsesCallbackToken ==
    [][(/\ sample = "current"
        /\ last.op = "azureResponse" /\ last.resumed
        /\ last.outcome = "response" /\ Has(last.bearer)
        /\ Started("me")
        /\ session[last'.session] = last.username)
       => /\ last'.outcome = "await"
          /\ last'.bearer = last.bearer]_vars

\* C6: a callback without a code (one that carries an error parameter) ends by
\* throwing before any credential is constructed: it makes no getToken call
\* and is never suspended, whatever its state parameter names.
C6_ErrorNeverReachesExchange ==
    (last.op = "azureResponse" /\ ~Truthy(last.code))
        => /\ ~last.resumed
           /\ last.outcome = "threw"
           /\ last.attempts = 0
           /\ pending[last.session] = Idle

\* C6 witness: a callback with error=access_denied whose state names a
\* logged-in user has thrown.
C6_Witness ==
    /\ last.op = "azureResponse" /\ last.error = "access_denied"
    /\ ~Truthy(last.code)
    /\ HasEntry(last.username) /\ LoggedIn(last.username)
    /\ last.outcome = "threw"

\* C7 as claimed: /me goes upstream exactly when the session's user is logged
\* in and holds an access token that has not expired; otherwise it ends
\* without an upstream call.
C7_MeNeedsUnexpiredToken ==
    [][Started("me")
       => LET username == session[last'.session] IN
          IF /\ Truthy(username)
             /\ HasEntry(username)
             /\ Entry(username).loggedIn
             /\ Has(Entry(username).azure.accessToken)
             /\ ~Expired(Get(Entry(username).azure.accessToken))
          THEN last'.outcome = "await"
          ELSE /\ last'.outcome # "await"
               /\ pending' = pending]_vars

\* C8 as claimed: a /login for u from a session that carries no username is
\* answered 200 and leaves database[u].loggedIn = true, the entry being
\* created with an empty Azure state when there was none.
C8_LoginSetsLoggedIn ==
    [][(Started("login") /\ ~Truthy(session[last'.session]))
       => LET key == ToPropertyKey(last'.username) IN
          /\ last'.outcome = "response" /\ last'.status = StatusOk
          /\ key \in DOMAIN database'
          /\ database'[key].loggedIn
          /\ (key \notin DOMAIN database => database'[key].azure = EmptyAzure)
       ]_vars

\* C9 as claimed: while u is logged in (a login for u succeeded and no logout
\* of u followed), a further login for u is rejected, whichever browser
\* session issues it.
C9_SecondLoginRejectedFromAnySession ==
    [][(Started("login") /\ HasEntry(last'.username)
          /\ Entry(last'.username).loggedIn)
       => /\ ~(last'.outcome = "response" /\ last'.status = StatusOk)
          /\ session' = session]_vars

\* C9 amended: a login issued by a browser session that already carries a
\* username (it logged in and has not logged out) takes the
\* already-authenticated branch: it is not answered as a completed login and
\* changes neither the database nor any session.
C9_SameSessionLoginRejected ==
    [][(Started("login") /\ Truthy(session[last'.session]))
       => /\ last' = AlreadyAuthenticatedStep(last'.session, last'.username)
          /\ database' = database /\ session' = session]_vars

\* C9 witness: both sessions are logged in as the same user (the second login
\* came from the other session and was accepted) and a further login from one
\* of them has just been rejected.
C9_Witness ==
    /\ last.op = "login" /\ last.outcome = "threw"
    /\ session[last.session] = last.username
    /\ \E s \in Sessions : s # last.session /\ session[s] = last.username

ExchangeThrew(s) ==
    /\ pending[s].kind = "getToken"
    /\ pending'[s] # pending[s]
    /\ nextToken' = nextToken

\* C11 as claimed: in test.ts, its draft and the test of test.spec.ts, when
\* the getToken call of a callback for u is rejected, the callback still ends
\* with its normal response and the Azure state of u then holds the error and
\* no access token.
C11_ExchangeFailureStored ==
    [][\A s \in Sessions :
         (sample \in {"current", "draft", "harness"} /\ ExchangeThrew(s)) =>
            LET key == ToPropertyKey(pending[s].username) IN
            /\ last'.outcome = "response"
            /\ Has(database'[key].azure.error)
            /\ ~Has(database'[key].azure.accessToken)]_vars

\* C12 as claimed: the state read by the callback handler at the end of the
\* /azureLogin -> authorize URL -> provider redirect -> /azureResponse chain
\* equals the state put into the authorize URL, the session's username.
C12_StateRoundTrips ==
    url.stage = "azureResponse" => url.got = url.state

C15_UnauthenticatedAnswered401 ==
    [][(/\ \/ /\ \/ Started("azureLogin")
                 \/ Started("me")
                 \/ Started("logout")
              /\ NoLoggedInSession(session[last'.session])
           \/ /\ Started("azureResponse")
              /\ Truthy(last'.code)
              /\ NoLoggedInSession(last'.username))
       => /\ last'.outcome = "response"
          /\ last'.status = StatusUnauthorized
          /\ database' = database
          /\ session' = session]_vars

\* C16: a /logout by a session logged in as u answers 200, removes the
\* username from that session, sets database[u].loggedIn to false and touches
\* nothing else (the Azure state of u, other entries, other sessions); a
\* /login that the same session issues next is accepted.
C16_LogoutClearsSession ==
    [][/\ (/\ Started("logout")
           /\ Truthy(session[last'.session])
           /\ HasEntry(session[last'.session])
           /\ Entry(session[last'.session]).loggedIn)
          => LET s == last'.session
                 u == session[s]
             IN /\ last'.outcome = "response" /\ last'.status = StatusOk
                /\ session' = [session EXCEPT ![s] = Undefined]
                /\ database' = [database EXCEPT ![u].loggedIn = FALSE]
       /\ (/\ last.op = "logout" /\ last.outcome = "response"
           /\ sample # "draft"
           /\ Started("login") /\ last'.session = last.session)
          => /\ last'.outcome = "response" /\ last'.status = StatusOk
             /\ session'[last'.session] = last'.username
             /\ database'[last'.username].loggedIn]_vars

\* C16 witness: on the server of server.ts a session has logged out of a user
\* who holds a token, and carries no username any more.
C16_Witness ==
    /\ sample \in ServerSamples
    /\ last.op = "logout" /\ last.outcome = "response"
    /\ session[last.session] = Undefined
    /\ ~Entry(last.username).loggedIn
    /\ Has(Entry(last.username).azure.accessToken)

\* C17 as claimed: a callback invocation of test.ts or of the test of
\* test.spec.ts that is not waiting for the token exchange has ended with
\* exactly one HTTP response sent.
C17_CallbackSendsOneResponse ==
    (/\ sample \in {"current", "harness"}
     /\ last.op = "azureResponse"
     /\ last.outcome # "await")
        => last.outcome = "response"


\* C18: last write wins, whole.  When a callback resumes from its getToken
\* call and writes, the Azure state of its user is wholly what this one
\* callback produced: the credential it exchanged with, the token it received
\* (none when the exchange failed), and an error exactly when it received no
\* token; no field is left over from another operation.
C18_LastWriteWins ==
    [][\A s \in Sessions :
         (/\ sample \in ExpressSamples
          /\ pending[s].kind = "getToken"
          /\ pending'[s] = Idle)
            => LET azure == database'[ToPropertyKey(pending[s].username)].azure
               IN /\ azure.credential = pending[s].credential
                  /\ azure.accessToken = last'.bearer
                  /\ Has(azure.error) = ~Has(last'.bearer)]_vars

\* the same statement for test.ts alone, whose callback assigns the whole
\* Azure state in one statement
C18_CurrentLastWriteWins ==
    [][\A s \in Sessions :
         (/\ sample = "current"
          /\ pending[s].kind = "getToken"
          /\ pending'[s] = Idle)
            => LET azure == database'[ToPropertyKey(pending[s].username)].azure
               IN /\ azure.credential = pending[s].credential
                  /\ azure.accessToken = last'.bearer
                  /\ Has(azure.error) = ~Has(last'.bearer)]_vars


\* C19: no token for a logged-out user.  Whenever a step stores a token in the
\* Azure state of a user, that user is marked logged in at the moment of the
\* write.
C19_NoTokenForLoggedOutUser ==
    [][\A u \in DOMAIN database :
         (/\ sample \in {"current", "obo", "harness"}
          /\ Has(database'[u].azure.accessToken)
          /\ database'[u].azure.accessToken # database[u].azure.accessToken)
            => database[u].loggedIn]_vars


C21_CodeCheckPrecedesSessionCheck ==
    [][(sample = "current" /\ Started("azureResponse")
          /\ CodeMissing(last'.code))
         => /\ last'.outcome = "threw"
            /\ last'.status = NoStatus
            /\ database' = database
            /\ session' = session
            /\ pending' = pending]_vars

\* a callback without a code whose state names a user marked logged out has
\* thrown
C21_Witness ==
    /\ sample = "current"
    /\ last.op = "azureResponse" /\ CodeMissing(last.code)
    /\ HasEntry(last.username) /\ ~Entry(last.username).loggedIn
    /\ last.outcome = "threw"


\* C22 as claimed: a /login from a browser session that already carries a
\* username is answered with status 500, whatever username it asks for, and
\* changes neither a session nor a database entry.
C22_RepeatedLoginAnswered500 ==
    [][(Started("login") /\ Truthy(session[last'.session]))
         => /\ last'.outcome = "response"
            /\ last'.status = StatusServerError
            /\ database' = database
            /\ session' = session]_vars


\* C23: /me of u's session carries only u's token.  A /me that goes upstream
\* sends the access token stored under the username of its session; an access
\* token enters the entry of a user only by a callback resuming from getToken
\* whose state parameter is that user, and it is the token just issued to that
\* callback; and no token is stored under two users.  So no /me of u's session
\* carries a token obtained by a callback whose state was another user.
C23_MeCarriesOnlyOwnToken ==
    /\ []((last.op = "me" /\ last.outcome = "await")
            => /\ last.username = session[last.session]
               /\ Has(last.bearer)
               /\ last.bearer = Entry(last.username).azure.accessToken)
    /\ [](\A u, v \in DOMAIN database :
            (/\ u # v
             /\ Has(database[u].azure.accessToken)
             /\ Has(database[v].azure.accessToken))
               => Get(database[u].azure.accessToken).token
                    # Get(database[v].azure.accessToken).token)
    /\ [][\A k \in DOMAIN database' :
            LET stored == database'[k].azure.accessToken IN
            (/\ Has(stored)
             /\ \/ k \notin DOMAIN database
                \/ database[k].azure.accessToken # stored)
               => /\ last'.op = "azureResponse" /\ last'.resumed
                  /\ ToPropertyKey(last'.username) = k
                  /\ stored = last'.bearer
                  /\ Get(stored).token = nextToken]_vars

\* two users are logged in, each holds a token of their own, and /me of one
\* user's session has just gone upstream
C23_Witness ==
    /\ last.op = "me" /\ last.outcome = "await"
    /\ \E v \in DOMAIN database :
         /\ v # ToPropertyKey(last.username)
         /\ database[v].loggedIn
         /\ Has(database[v].azure.accessToken)
         /\ \E s \in Sessions : session[s] = v


\* C24: in test.ts, an Azure state written by a callback holds exactly one of
\* accessToken and error.  When a callback resumes from getToken with a token,
\* the Azure state of its user holds that token and no error; when it resumes
\* from a rejected getToken, it holds an error and no token, whatever an
\* earlier callback had stored.
C24_ExactlyOneOfTokenAndError ==
    /\ [](sample = "current"
            => \A k \in DOMAIN database :
                 Has(database[k].azure.credential)
                    => Has(database[k].azure.accessToken)
                         # Has(database[k].azure.error))
    /\ [][\A s \in Sessions :
            (/\ sample = "current"
             /\ pending[s].kind = "getToken"
             /\ pending'[s] = Idle)
               => LET azure ==
                        database'[ToPropertyKey(pending[s].username)].azure
                  IN IF Has(last'.bearer)
                     THEN azure.accessToken = last'.bearer /\ ~Has(azure.error)
                     ELSE Has(azure.error) /\ ~Has(azure.accessToken)]_vars

\* the only user of the database, to whose callback a token had been issued,
\* holds an error and no token after a later exchange failed
C24_Witness ==
    /\ sample = "current"
    /\ last.op = "azureResponse" /\ last.resumed /\ ~Has(last.bearer)
    /\ DOMAIN database = {ToPropertyKey(last.username)}
    /\ nextToken > 1
    /\ Has(Entry(last.username).azure.error)
    /\ ~Has(Entry(last.username).azure.accessToken)


\* C25: in ideal.ts the callback exchanges with the stored credential.  The
\* credential of an entry changes only by an /azureLogin of that user, which
\* stores a new credential object; a callback that passes the checks and
\* reaches getToken calls it on the credential stored for its user at that
\* moment; a callback that passes the checks while no credential is stored
\* calls nothing, receives no token and leaves the entry without a token; and
\* an entry without a credential never holds an access token.
C25_CallbackUsesStoredCredential ==
    /\ [](sample = "ideal"
            => \A k \in DOMAIN database :
                 ~Has(database[k].azure.credential)
                    => ~Has(database[k].azure.accessToken))
    /\ [][sample = "ideal" =>
          /\ (Started("azureResponse") /\ last'.outcome = "await")
                => /\ Has(Entry(last'.username).azure.credential)
                   /\ pending'[last'.session].credential
                        = Entry(last'.username).azure.credential
          /\ (/\ Started("azureResponse")
              /\ ~CodeMissing(last'.code)
              /\ ~CheckThrows(last'.username)
              /\ LoggedIn(last'.username)
              /\ ~Has(Entry(last'.username).azure.credential))
                => /\ last'.outcome = "response"
                   /\ ~Has(last'.bearer)
                   /\ nextToken' = nextToken
                   /\ pending' = pending
                   /\ ~Has(database'[ToPropertyKey(last'.username)]
                              .azure.accessToken)
          /\ \A k \in DOMAIN database :
               database'[k].azure.credential # database[k].azure.credential
                  => /\ last'.op = "azureLogin"
                     /\ ToPropertyKey(last'.username) = k
                     /\ database'[k].azure.credential
                          = Some([id |-> nextCredential])]_vars

\* a callback waits on the credential of the second /azureLogin of its user,
\* while another user, for whom no /azureLogin ran, was left with the error
\* of a callback and no token
C25_Witness ==
    /\ sample = "ideal"
    /\ last.op = "azureResponse" /\ last.outcome = "await"
    /\ pending[last.session].credential = Some([id |-> 2])
    /\ Entry(last.username).azure.credential = Some([id |-> 2])
    /\ \E v \in DOMAIN database :
         /\ v # ToPropertyKey(last.username)
         /\ ~Has(database[v].azure.credential)
         /\ Has(database[v].azure.error)
         /\ ~Has(database[v].azure.accessToken)


\* C26: in ideal.ts /azureLogin drops the stored token.  An /azureLogin that
\* passes its check leaves the Azure state of its user holding the new
\* credential and nothing else; afterwards a token enters that state only by
\* a callback for that user resuming from getToken; and a /me arriving from a
\* session of a user whose Azure state holds no token is answered 401 and
\* sends nothing upstream.
C26_AzureLoginDropsToken ==
    [][sample = "ideal" =>
         /\ (Started("azureLogin") /\ last'.status = StatusFound)
               => database'[ToPropertyKey(last'.username)].azure
                    = [credential |-> Some([id |-> nextCredential]),
                       accessToken |-> None, error |-> None]
         /\ \A k \in DOMAIN database :
              (/\ ~Has(database[k].azure.accessToken)
               /\ Has(database'[k].azure.accessToken))
                 => /\ last'.op = "azureResponse" /\ last'.resumed
                    /\ ToPropertyKey(last'.username) = k
         /\ \A s \in Sessions :
              (/\ Started("me") /\ last'.session = s
               /\ HasEntry(session[s])
               /\ ~Has(Entry(session[s]).azure.accessToken))
                 => /\ last'.outcome = "response"
                    /\ last'.status = StatusUnauthorized
                    /\ pending' = pending]_vars

\* a token had been issued to the only user of the database, a later
\* /azureLogin left the entry with a credential and no token, and the /me of
\* that logged-in user has just been answered 401
C26_Witness ==
    /\ sample = "ideal"
    /\ last.op = "me" /\ last.status = StatusUnauthorized
    /\ DOMAIN database = {ToPropertyKey(last.username)}
    /\ Entry(last.username).loggedIn
    /\ nextToken > 1
    /\ Entry(last.username).azure
         = [credential |-> Some([id |-> 2]), accessToken |-> None,
            error |-> None]


\* C27: the test wrappers.  A call of credentialWrapper.getToken,
\* credentialWrapper.authenticate or sendRequest made while TEST_MODE is
\* "playback" makes no call on the wrapped credential or HTTP client and
\* returns its canned value: the token "TOKEN" expiring later than the time of
\* the call, the fixed authentication record, the fixed response.  Under any
\* other TEST_MODE, unset included, it makes exactly one call on the wrapped
\* object and returns what that call produced.
C27_WrappersPlaybackOrDelegate ==
    [][(wrapper' # wrapper /\ wrapper'.testMode = wrapper.testMode)
         => IF wrapper.testMode = "playback"
            THEN /\ wrapper'.delegated = 0
                 /\ ~Has(wrapper'.wrapped)
                 /\ Has(wrapper'.returned)
                 /\ wrapper'.call = "getToken"
                      => /\ Get(wrapper'.returned).token = "TOKEN"
                         /\ Get(wrapper'.returned).expiresOnTimestamp > now
                 /\ wrapper'.call = "authenticate"
                      => Get(wrapper'.returned) = CannedRecord
                 /\ wrapper'.call = "sendRequest"
                      => Get(wrapper'.returned) = CannedResponse
            ELSE /\ wrapper'.delegated = 1
                 /\ Has(wrapper'.wrapped)
                 /\ wrapper'.returned = wrapper'.wrapped]_vars

\* getToken was called in playback after the clock had advanced and returned
\* the canned token without a call on the credential
C27_Witness ==
    /\ wrapper.testMode = "playback"
    /\ wrapper.call = "getToken" /\ wrapper.at > 0
    /\ wrapper.delegated = 0
    /\ Get(wrapper.returned).token = "TOKEN"


\* C28: a login keeps the Azure state.  A login that succeeds for a username
\* that already has a database entry changes nothing in the database but that
\* entry's loggedIn flag, which becomes true; and a logout changes no Azure
\* state.  So the credential, access token and error stored before a logout
\* are there after the next login of the same username.
C28_LoginKeepsAzureState ==
    [][/\ (/\ Started("login")
           /\ last'.outcome = "response"
           /\ HasEntry(last'.username))
             => database' = [database EXCEPT
                   ![ToPropertyKey(last'.username)].loggedIn = TRUE]
       /\ Started("logout")
             => \A k \in DOMAIN database :
                  /\ k \in DOMAIN database'
                  /\ database'[k].azure = database[k].azure]_vars

\* a login has just succeeded for a user whose entry holds a token from
\* before the logout that left every other session without a username
C28_Witness ==
    /\ last.op = "login" /\ last.outcome = "response"
    /\ Has(Entry(last.username).azure.accessToken)
    /\ Entry(last.username).loggedIn
    /\ \A s \in Sessions : s # last.session => ~Truthy(session[s])


\* C29: sessions point at entries and the store only grows.  In every state
\* each browser session that carries a username has a database entry for it;
\* no step removes an entry, and a step that adds one is a /login and adds
\* the entry of the username it asks for.
C29_EntriesOnlyGrow ==
    /\ [](\A s \in Sessions : Truthy(session[s]) => HasEntry(session[s]))
    /\ [][/\ DOMAIN database \subseteq DOMAIN database'
          /\ DOMAIN database' # DOMAIN database
               => /\ last'.op = "login"
                  /\ DOMAIN database'
                       = DOMAIN database \cup {ToPropertyKey(last'.username)}
         ]_vars

\* on the server of current/test/server.ts both users have an entry, one
\* session still carries its username and the other has just logged out
C29_Witness ==
    /\ sample = "obo"
    /\ DOMAIN database = Usernames
    /\ last.op = "logout" /\ last.outcome = "response"
    /\ ~Truthy(session[last.session])
    /\ \E s \in Sessions : Truthy(session[s])


\* C30: who writes the store in test.ts.  A step of /azureLogin,
\* /azureFakeRedirect or /me, and a step of a callback before its getToken
\* call has come back (it threw, answered 401, or is waiting), changes no
\* database entry and no session; a step that adds or changes a database
\* entry is a /login, a /logout or a callback back from getToken, and the
\* entry is the one of the username the request names; a step that changes a
\* session is a /login or /logout and changes the session that issued it.
C30_OnlyLoginLogoutCallbackWrite ==
    [][sample = "current" =>
         /\ (\/ last'.op \in {"azureLogin", "azureFakeRedirect", "me"}
             \/ last'.op = "azureResponse" /\ ~last'.resumed)
               => database' = database /\ session' = session
         /\ \A k \in DOMAIN database' :
              (k \notin DOMAIN database \/ database'[k] # database[k])
                 => /\ k = ToPropertyKey(last'.username)
                    /\ \/ last'.op \in {"login", "logout"}
                       \/ last'.op = "azureResponse" /\ last'.resumed
         /\ DOMAIN database \subseteq DOMAIN database'
         /\ \A s \in Sessions :
              session'[s] # session[s]
                 => last'.op \in {"login", "logout"} /\ last'.session = s]_vars

\* /azureLogin has just redirected a user whose entry holds an access token
C30_Witness ==
    /\ sample = "current"
    /\ last.op = "azureLogin" /\ last.status = StatusFound
    /\ Has(Entry(last.username).azure.accessToken)

=============================================================================
